---- MODULE Spec2Model ----
(***************************************************************************)
(* Model of get_diff.py: the status model (FileStatus), the change record  *)
(* (FileChange) with its two constructors, the local and the remote        *)
(* change-set builders, and main with its conflict loop.                   *)
(*                                                                         *)
(* Three specifications:                                                   *)
(*   Spec       one run of main(), from the branch-name check to the exit  *)
(*              of the process; the output of git and of the GitHub API is *)
(*              drawn line by line / item by item when the loops reach it. *)
(*   SpecLocal  one call of get_modified_files_local on its own, as        *)
(*              test_get_modified_files_local makes it, over every line    *)
(*              of Lines.                                                  *)
(*   SpecUnit   one direct call of a FileStatus / FileChange constructor,  *)
(*              the arguments drawn from bounded sets.                     *)
(***************************************************************************)
EXTENDS Integers, Sequences, FiniteSets, TLC

\* ------------------------------------------------------------------ bounds
\* Most file entries in one compare response.
MaxFiles == 2
\* Most lines in one `git diff --name-status` output.
MaxLines == 3
\* Most path fields after a status token (a line, or a direct call).
MaxPaths == 3

\* ------------------------------------------------------- program constants
HTTP_OK == 200

\* Python's None, as the value of an absent old_path / previous_filename.
None == "None"

\* ------------------------------------------------------------- FileStatus
FileStatus == {"added", "removed", "modified", "renamed", "copied", "changed", "unchanged"}

\* _GIT_MAPPING, as a function of the status letter.
GIT_MAPPING == ("A" :> "added") @@ ("D" :> "removed") @@ ("M" :> "modified")
                 @@ ("R" :> "renamed") @@ ("C" :> "copied") @@ ("T" :> "changed")
                 @@ ("U" :> "unchanged")

\* The outcome of a call: exc = "none" and the value in (status, path,
\* old_path), or the exception raised (exc) and the raise statement (why).
Returned(status, path, old_path) ==
    [exc |-> "none", why |-> "", status |-> status, path |-> path, old_path |-> old_path]

Raised(exc, why) ==
    [exc |-> exc, why |-> why, status |-> None, path |-> None, old_path |-> None]

\* A bug: the status letter taken from the end of the token.
FileStatus_from_git_last(status) ==
    IF Len(status) = 0 THEN Raised("IndexError", "status[0]")
    ELSE LET c == status[Len(status)] IN
         IF c = "X" THEN Raised("ValueError", "git_status_X")
         ELSE IF c \notin DOMAIN GIT_MAPPING THEN Raised("ValueError", "unknown_git_status")
         ELSE Returned(GIT_MAPPING[c], None, None)

\* FileStatus.from_git: a token is a sequence of characters; status[0] of an
\* empty token raises IndexError.
FileStatus_from_git(status) ==
    IF Len(status) = 0 THEN Raised("IndexError", "status[0]")
    ELSE LET c == status[1] IN
         IF c = "X" THEN Raised("ValueError", "git_status_X")
         ELSE IF c \notin DOMAIN GIT_MAPPING THEN Raised("ValueError", "unknown_git_status")
         ELSE Returned(GIT_MAPPING[c], None, None)

\* FileStatus.from_github: cls(status) looks the string up among the values.
FileStatus_from_github(status) ==
    IF status \in FileStatus THEN Returned(status, None, None)
    ELSE Raised("ValueError", "unknown_github_status")

\* ------------------------------------------------------------- FileChange
\* A bug: a rename or copy with more than two paths is accepted.
FileChange_from_git_atleast(raw_status, paths) ==
    LET s == FileStatus_from_git(raw_status) IN
    IF s.exc # "none" THEN s
    ELSE IF s.status \in {"renamed", "copied"} THEN
        IF Len(paths) < 2 THEN Raised("ValueError", "expected_two_paths")
        ELSE Returned(s.status, paths[2], paths[1])
    ELSE IF Len(paths) < 1 THEN Raised("ValueError", "expected_one_path")
    ELSE Returned(s.status, paths[1], None)

\* A bug: only a rename, not a copy, takes the two-path branch.
FileChange_from_git_renamed_only(raw_status, paths) ==
    LET s == FileStatus_from_git(raw_status) IN
    IF s.exc # "none" THEN s
    ELSE IF s.status \in {"renamed"} THEN
        IF Len(paths) # 2 THEN Raised("ValueError", "expected_two_paths")
        ELSE Returned(s.status, paths[2], paths[1])
    ELSE IF Len(paths) # 1 THEN Raised("ValueError", "expected_one_path")
    ELSE Returned(s.status, paths[1], None)

\* FileChange.from_git.
FileChange_from_git(raw_status, paths) ==
    LET s == FileStatus_from_git(raw_status) IN
    IF s.exc # "none" THEN s
    ELSE IF s.status \in {"renamed", "copied"} THEN
        IF Len(paths) # 2 THEN Raised("ValueError", "expected_two_paths")
        ELSE Returned(s.status, paths[2], paths[1])
    ELSE IF Len(paths) # 1 THEN Raised("ValueError", "expected_one_path")
    ELSE Returned(s.status, paths[1], None)

\* A bug: `and` in place of the exclusive or.
FileChange_from_github_and(raw_status, filename, previous_filename) ==
    LET s == FileStatus_from_github(raw_status) IN
    IF s.exc # "none" THEN s
    ELSE IF (previous_filename # None) /\ (s.status \in {"renamed", "copied"})
        THEN Raised("ValueError", "previous_filename")
    ELSE Returned(s.status, filename, previous_filename)

\* FileChange.from_github.
FileChange_from_github(raw_status, filename, previous_filename) ==
    LET s == FileStatus_from_github(raw_status) IN
    IF s.exc # "none" THEN s
    ELSE IF (previous_filename # None) # (s.status \in {"renamed", "copied"})
        THEN Raised("ValueError", "previous_filename")
    ELSE Returned(s.status, filename, previous_filename)

\* The FileChange instance a successful call returned.
Change(r) == [status |-> r.status, path |-> r.path, old_path |-> r.old_path]

\* ------------------------------------------------------------------ inputs
\* Commit ids `git merge-base` can print.
Commits == {"c1", "c2"}

PathNames == {"a", "b"}

\* Sequences of at most n paths.
PathSeqs(n) == UNION {[1..k -> PathNames] : k \in 0..n}

\* Status tokens of a diff line: empty, unknown (a space), M, R with a
\* similarity score, and git's X.
StatusTokens == {<<>>, <<" ">>, <<"M">>, <<"R", "1", "0", "0">>, <<"X">>}

\* A line of the diff output is its tab-separated fields: the text before the
\* first tab (status) and the fields after it (paths); a line with no tab has
\* no paths.
Lines == [status : StatusTokens, paths : PathSeqs(MaxPaths)]

\* The diff lines of a run of main: well-formed lines (modified, renamed), a
\* blank line, and lines that fail to parse (git's X; an empty status token).
MainLines ==
    {[status |-> <<"M">>, paths |-> <<p>>] : p \in PathNames}
      \cup {[status |-> <<"R", "1", "0", "0">>, paths |-> ps] : ps \in {<<"a", "b">>, <<"b", "a">>}}
      \cup {[status |-> <<>>, paths |-> <<>>],
            [status |-> <<"X">>, paths |-> <<"a">>],
            [status |-> <<>>, paths |-> <<"a">>]}

Whitespace == {" ", "\t"}

BlankStrings == {"", " "}

\* The `status` strings of the file entries of a compare response.
GithubStatuses == {"modified", "renamed", "bogus"}

\* A file entry of the compare response; item.get('previous_filename') is
\* None when the key is absent.
Items == [status : GithubStatuses, filename : PathNames, previous_filename : PathNames \cup {None}]

\* The `status` of a compare response.
CompareStatuses == {"ahead", "identical", "diverged"}

HttpCodes == {200, 404}

\* ------------------------------------------------------------------- state
VARIABLES
    pc,                       \* where main is
    assigned,                 \* the names of main's locals assigned so far
    merge_base_commit,        \* main's local
    branch_a_modified_files,  \* main's local: the remote change-set
    branch_b_modified_files,  \* main's local: the local change-set
    branch_a_by_file,         \* main's local: path -> remote FileChange
    modified_files,           \* the running builder's list
    lines_read,               \* the diff lines the local builder has looped over
    compare_status,           \* response_data['status'], None before the response
    idx,                      \* position of the conflict loop in branch_b_modified_files
    report,                   \* the conflicts printed, in order
    stdout,                   \* the other messages printed, in order
    raised,                   \* the exception that left a callee of main
    exit_code,                \* the process's exit status, -1 while it runs
    calls,                    \* how many times each function was called
    passed,                   \* the merge_base_commit argument each builder got
    call,                     \* SpecUnit: the call made
    ret                       \* SpecUnit: what it returned or raised

vars == <<pc, assigned, merge_base_commit, branch_a_modified_files, branch_b_modified_files,
          branch_a_by_file, modified_files, lines_read, compare_status, idx, report, stdout,
          raised, exit_code, calls, passed, call, ret>>

unit_vars == <<call, ret>>

NoException == [in |-> "", exc |-> "none", why |-> ""]

NoChange == [status |-> None, path |-> None, old_path |-> None]

NoCall == [fn |-> "", token |-> <<>>, raw |-> "", paths |-> <<>>, filename |-> None,
           previous_filename |-> None]

NotReturned == Raised("pending", "")

MainInit ==
    /\ assigned = {}
    /\ merge_base_commit = None
    /\ branch_a_modified_files = <<>>
    /\ branch_b_modified_files = <<>>
    /\ branch_a_by_file = [p \in {} |-> NoChange]
    /\ modified_files = <<>>
    /\ lines_read = <<>>
    /\ compare_status = None
    /\ idx = 1
    /\ report = <<>>
    /\ stdout = <<>>
    /\ raised = NoException
    /\ exit_code = -1
    /\ calls = [get_merge_base |-> 0, get_modified_files_remote |-> 0,
                get_modified_files_local |-> 0, from_github |-> 0, from_git |-> 0]
    /\ passed = [get_modified_files_remote |-> None, get_modified_files_local |-> None]

Init ==
    /\ pc = "check_branch"
    /\ MainInit
    /\ call = NoCall
    /\ ret = NotReturned

\* -------------------------------------------------------------------- main
\* A bug: main does not return after the remote builder failed.
MainAfterRemoteError_continue == "local_diff"

\* `return` in main's except clause around get_modified_files_remote.
MainAfterRemoteError == "done"

\* An exception leaves function fn and reaches main's try statement around
\* it: a RuntimeError is caught, msg is printed and main returns (the process
\* exits 0); any other exception is not caught and the interpreter exits 1.
Propagate(fn, exc, why, msg, next) ==
    /\ raised' = [in |-> fn, exc |-> exc, why |-> why]
    /\ IF exc = "RuntimeError"
         THEN /\ stdout' = Append(stdout, msg)
              /\ exit_code' = IF next = "done" THEN 0 ELSE exit_code
              /\ pc' = next
         ELSE /\ stdout' = stdout
              /\ exit_code' = 1
              /\ pc' = "done"

\* if '/' in args.branch_b: print(...); return
CheckBranch ==
    /\ pc = "check_branch"
    /\ \E slash \in BOOLEAN :
         IF slash
           THEN /\ stdout' = Append(stdout, "Local branch names should not contain")
                /\ exit_code' = 0
                /\ pc' = "done"
           ELSE /\ pc' = "merge_base"
                /\ UNCHANGED <<stdout, exit_code>>
    /\ UNCHANGED <<assigned, merge_base_commit, branch_a_modified_files,
                   branch_b_modified_files, branch_a_by_file, modified_files, lines_read,
                   compare_status, idx, report, raised, calls, passed>>
    /\ UNCHANGED unit_vars

\* merge_base_commit = get_merge_base(...): run_cmd fails (RuntimeError) or
\* prints a commit.
GetMergeBase ==
    /\ pc = "merge_base"
    /\ calls' = [calls EXCEPT !.get_merge_base = @ + 1]
    /\ \E out \in Commits \cup {None} :
         IF out = None
           THEN /\ Propagate("get_merge_base", "RuntimeError", "merge_base",
                             "Failed to find merge base commit", "done")
                /\ UNCHANGED <<merge_base_commit, assigned>>
           ELSE /\ merge_base_commit' = out
                /\ assigned' = assigned \cup {"merge_base_commit"}
                /\ pc' = "remote_branch"
                /\ UNCHANGED <<stdout, exit_code, raised>>
    /\ UNCHANGED <<branch_a_modified_files, branch_b_modified_files, branch_a_by_file,
                   modified_files, lines_read, compare_status, idx, report, passed>>
    /\ UNCHANGED unit_vars

\* ------------------------------------------------ get_modified_files_remote
\* A bug: the assertion is dropped (as `python -O` drops it).
CompareStatusAsserted_off(status) == TRUE

\* assert response_data['status'] == 'ahead'
CompareStatusAsserted(status) == status = "ahead"

\* The first request (branch info): a non-200 answer raises RuntimeError.
RemoteBranchLookup ==
    /\ pc = "remote_branch"
    /\ calls' = [calls EXCEPT !.get_modified_files_remote = @ + 1]
    /\ passed' = [passed EXCEPT !.get_modified_files_remote = merge_base_commit]
    /\ \E status_code \in HttpCodes :
         IF status_code # HTTP_OK
           THEN Propagate("get_modified_files_remote", "RuntimeError", "branch_info",
                          "Failed to get modified files for remote branch",
                          MainAfterRemoteError)
           ELSE /\ pc' = "remote_compare"
                /\ UNCHANGED <<stdout, exit_code, raised>>
    /\ UNCHANGED <<assigned, merge_base_commit, branch_a_modified_files,
                   branch_b_modified_files, branch_a_by_file, modified_files, lines_read,
                   compare_status, idx, report>>
    /\ UNCHANGED unit_vars

\* The second request (compare) and the assertion on its status; an
\* AssertionError is not a RuntimeError.
RemoteCompare ==
    /\ pc = "remote_compare"
    /\ \E status_code \in HttpCodes, status \in CompareStatuses :
         IF status_code # HTTP_OK
           THEN /\ Propagate("get_modified_files_remote", "RuntimeError", "compare",
                             "Failed to get modified files for remote branch",
                             MainAfterRemoteError)
                /\ UNCHANGED <<compare_status, modified_files>>
           ELSE /\ compare_status' = status
                /\ IF CompareStatusAsserted(status)
                     THEN /\ modified_files' = <<>>
                          /\ pc' = "remote_parse"
                          /\ UNCHANGED <<stdout, exit_code, raised>>
                     ELSE /\ Propagate("get_modified_files_remote", "AssertionError",
                                       "status", "", "done")
                          /\ UNCHANGED modified_files
    /\ UNCHANGED <<assigned, merge_base_commit, branch_a_modified_files,
                   branch_b_modified_files, branch_a_by_file, lines_read, idx, report,
                   calls, passed>>
    /\ UNCHANGED unit_vars

\* One iteration of `for item in response_data['files']`: a ValueError of
\* FileChange.from_github becomes the builder's RuntimeError.
RemoteParseItem ==
    /\ pc = "remote_parse"
    /\ Len(modified_files) < MaxFiles
    /\ calls' = [calls EXCEPT !.from_github = @ + 1]
    /\ \E item \in Items :
         LET r == FileChange_from_github(item.status, item.filename, item.previous_filename) IN
         IF r.exc = "none"
           THEN /\ modified_files' = Append(modified_files, Change(r))
                /\ UNCHANGED <<pc, stdout, exit_code, raised>>
           ELSE /\ Propagate("get_modified_files_remote", "RuntimeError", "parse",
                             "Failed to get modified files for remote branch",
                             MainAfterRemoteError)
                /\ UNCHANGED modified_files
    /\ UNCHANGED <<assigned, merge_base_commit, branch_a_modified_files,
                   branch_b_modified_files, branch_a_by_file, lines_read, compare_status,
                   idx, report, passed>>
    /\ UNCHANGED unit_vars

\* The loop is over: return modified_files; main assigns
\* branch_a_modified_files.
RemoteReturn ==
    /\ pc = "remote_parse"
    /\ branch_a_modified_files' = modified_files
    /\ assigned' = assigned \cup {"branch_a_modified_files"}
    /\ modified_files' = <<>>
    /\ pc' = "local_diff"
    /\ UNCHANGED <<merge_base_commit, branch_b_modified_files, branch_a_by_file, lines_read,
                   compare_status, idx, report, stdout, raised, exit_code, calls, passed>>
    /\ UNCHANGED unit_vars

\* ------------------------------------------------- get_modified_files_local
\* line.strip() is empty: every character of the line is whitespace.
IsBlank(line) ==
    /\ \A k \in 1..Len(line.status) : line.status[k] \in Whitespace
    /\ \A k \in 1..Len(line.paths) : line.paths[k] \in BlankStrings

\* run_cmd returns stdout.strip(): the first line of the output does not
\* start with whitespace (a line with an empty first field is empty or starts
\* with a tab) and the last line does not end with whitespace.
StartsWithSpace(line) ==
    IF Len(line.status) = 0 THEN TRUE ELSE line.status[1] \in Whitespace

EndsWithSpace(line) ==
    IF Len(line.paths) = 0
      THEN IF Len(line.status) = 0 THEN TRUE ELSE line.status[Len(line.status)] \in Whitespace
      ELSE line.paths[Len(line.paths)] \in BlankStrings

\* status, filename = line.split('\t', 1);
\* FileChange.from_git(status, filename.split('\t')).  Without a tab the
\* unpacking raises ValueError.
ParseLine(line) ==
    IF Len(line.paths) = 0 THEN Raised("ValueError", "unpack")
    ELSE FileChange_from_git(line.status, line.paths)

\* run_cmd('git', ..., 'diff', '--name-status', ...): fails (RuntimeError) or
\* returns the output.
LocalDiff ==
    /\ pc = "local_diff"
    /\ calls' = [calls EXCEPT !.get_modified_files_local = @ + 1]
    /\ passed' = [passed EXCEPT !.get_modified_files_local = merge_base_commit]
    /\ \E ok \in BOOLEAN :
         IF ok
           THEN /\ modified_files' = <<>>
                /\ lines_read' = <<>>
                /\ pc' = "local_parse"
                /\ UNCHANGED <<stdout, exit_code, raised>>
           ELSE /\ Propagate("get_modified_files_local", "RuntimeError", "diff",
                             "Failed to get modified files for local branch", "done")
                /\ UNCHANGED <<modified_files, lines_read>>
    /\ UNCHANGED <<assigned, merge_base_commit, branch_a_modified_files,
                   branch_b_modified_files, branch_a_by_file, compare_status, idx, report>>
    /\ UNCHANGED unit_vars

\* One iteration of `for line in cmd_output.splitlines()`: a blank line is
\* skipped; a ValueError becomes the builder's RuntimeError; any other
\* exception leaves the builder as it is.
LocalParseLine(output_lines) ==
    /\ pc = "local_parse"
    /\ Len(lines_read) < MaxLines
    /\ \E line \in output_lines :
         /\ lines_read = <<>> => ~StartsWithSpace(line)
         /\ lines_read' = Append(lines_read, line)
         /\ IF IsBlank(line)
              THEN UNCHANGED <<modified_files, pc, stdout, exit_code, raised, calls>>
              ELSE LET r == ParseLine(line) IN
                   /\ calls' = [calls EXCEPT !.from_git =
                                   IF Len(line.paths) = 0 THEN @ ELSE @ + 1]
                   /\ IF r.exc = "none"
                        THEN /\ modified_files' = Append(modified_files, Change(r))
                             /\ UNCHANGED <<pc, stdout, exit_code, raised>>
                        ELSE /\ IF r.exc = "ValueError"
                                  THEN Propagate("get_modified_files_local", "RuntimeError",
                                                 "parse",
                                                 "Failed to get modified files for local branch",
                                                 "done")
                                  ELSE Propagate("get_modified_files_local", r.exc, r.why,
                                                 "", "done")
                             /\ UNCHANGED modified_files
    /\ UNCHANGED <<assigned, merge_base_commit, branch_a_modified_files,
                   branch_b_modified_files, branch_a_by_file, compare_status, idx, report,
                   passed>>
    /\ UNCHANGED unit_vars

\* The loop is over: return modified_files; main assigns
\* branch_b_modified_files.
LocalReturn ==
    /\ pc = "local_parse"
    /\ IF lines_read = <<>> THEN TRUE ELSE ~EndsWithSpace(lines_read[Len(lines_read)])
    /\ branch_b_modified_files' = modified_files
    /\ assigned' = assigned \cup {"branch_b_modified_files"}
    /\ modified_files' = <<>>
    /\ pc' = "by_file"
    /\ UNCHANGED <<merge_base_commit, branch_a_modified_files, branch_a_by_file, lines_read,
                   compare_status, idx, report, stdout, raised, exit_code, calls, passed>>
    /\ UNCHANGED unit_vars

\* ---------------------------------------------------------- the conflict loop
\* The last position of path p in files.
LastIndex(files, p) ==
    CHOOSE k \in 1..Len(files) :
        /\ files[k].path = p
        /\ \A j \in (k + 1)..Len(files) : files[j].path # p

\* A bug: a renamed file is filed under its old path.
ByFile_old_path(files) ==
    LET key(c) == IF c.old_path # None THEN c.old_path ELSE c.path IN
    [p \in {key(files[k]) : k \in 1..Len(files)} |->
        files[CHOOSE k \in 1..Len(files) :
                 /\ key(files[k]) = p
                 /\ \A j \in (k + 1)..Len(files) : key(files[j]) # p]]

\* {file_change.path: file_change for file_change in files}: a later record
\* replaces an earlier one with the same path.
ByFile(files) ==
    [p \in {files[k].path : k \in 1..Len(files)} |-> files[LastIndex(files, p)]]

\* A bug: a renamed or copied file is never reported.
InByFile_plain_only(change, by_file) ==
    change.path \in DOMAIN by_file /\ change.old_path = None

\* change.path in branch_a_by_file
InByFile(change, by_file) == change.path \in DOMAIN by_file

\* branch_a_by_file = {...}; print('--- Potential Conflicts ---')
BuildByFile ==
    /\ pc = "by_file"
    /\ branch_a_by_file' = ByFile(branch_a_modified_files)
    /\ assigned' = assigned \cup {"branch_a_by_file"}
    /\ stdout' = Append(stdout, "--- Potential Conflicts ---")
    /\ idx' = 1
    /\ pc' = "conflicts"
    /\ UNCHANGED <<merge_base_commit, branch_a_modified_files, branch_b_modified_files,
                   modified_files, lines_read, compare_status, report, raised, exit_code,
                   calls, passed>>
    /\ UNCHANGED unit_vars

\* One iteration of `for change in branch_b_modified_files`.
ConflictStep ==
    /\ pc = "conflicts"
    /\ idx <= Len(branch_b_modified_files)
    /\ LET change == branch_b_modified_files[idx] IN
         report' = IF InByFile(change, branch_a_by_file)
                     THEN Append(report, [path |-> change.path,
                                          a |-> branch_a_by_file[change.path],
                                          b |-> change])
                     ELSE report
    /\ idx' = idx + 1
    /\ UNCHANGED <<pc, assigned, merge_base_commit, branch_a_modified_files,
                   branch_b_modified_files, branch_a_by_file, modified_files, lines_read,
                   compare_status, stdout, raised, exit_code, calls, passed>>
    /\ UNCHANGED unit_vars

\* The loop is over: main returns and the process exits 0.
MainReturn ==
    /\ pc = "conflicts"
    /\ idx > Len(branch_b_modified_files)
    /\ exit_code' = 0
    /\ pc' = "done"
    /\ UNCHANGED <<assigned, merge_base_commit, branch_a_modified_files,
                   branch_b_modified_files, branch_a_by_file, modified_files, lines_read,
                   compare_status, idx, report, stdout, raised, calls, passed>>
    /\ UNCHANGED unit_vars

Next ==
    \/ CheckBranch
    \/ GetMergeBase
    \/ RemoteBranchLookup
    \/ RemoteCompare
    \/ RemoteParseItem
    \/ RemoteReturn
    \/ LocalDiff
    \/ LocalParseLine(MainLines)
    \/ LocalReturn
    \/ BuildByFile
    \/ ConflictStep
    \/ MainReturn

Spec == Init /\ [][Next]_vars

\* ------------------------------------- get_modified_files_local on its own
\* The builder is called directly; nothing of main has run.
InitLocal ==
    /\ pc = "local_diff"
    /\ MainInit
    /\ call = NoCall
    /\ ret = NotReturned

NextLocal ==
    \/ LocalDiff
    \/ LocalParseLine(Lines)
    \/ LocalReturn

SpecLocal == InitLocal /\ [][NextLocal]_vars

\* ----------------------------------------------- the constructors on their own
\* Status tokens of direct calls: every letter of _GIT_MAPPING, X, another
\* capital, a lower-case letter, tokens with a similarity score, a token whose
\* first letter is followed by another letter, and the empty token.
UnitTokens ==
    {<<c>> : c \in {"A", "D", "M", "R", "C", "T", "U", "X", "Q", "m"}}
      \cup {<<"R", "1", "0", "0">>, <<"C", "7", "5">>, <<"M", "X">>, <<"X", "M">>, <<>>}

\* Status strings of direct calls: every value of FileStatus, one with
\* another case, and an unknown one.
UnitStatuses == FileStatus \cup {"Added", "bogus"}

UnitCalls ==
    {[NoCall EXCEPT !.fn = "FileStatus.from_git", !.token = t] : t \in UnitTokens}
      \cup {[NoCall EXCEPT !.fn = "FileChange.from_git", !.token = t, !.paths = ps] :
               t \in UnitTokens, ps \in PathSeqs(MaxPaths)}
      \cup {[NoCall EXCEPT !.fn = "FileStatus.from_github", !.raw = r] : r \in UnitStatuses}
      \cup {[NoCall EXCEPT !.fn = "FileChange.from_github", !.raw = r, !.filename = f,
                           !.previous_filename = pf] :
               r \in UnitStatuses, f \in PathNames, pf \in PathNames \cup {None}}

InitUnit ==
    /\ pc = "unit"
    /\ MainInit
    /\ call \in UnitCalls
    /\ ret = NotReturned

CallFileStatusFromGit ==
    /\ pc = "unit"
    /\ call.fn = "FileStatus.from_git"
    /\ ret' = FileStatus_from_git(call.token)
    /\ pc' = "returned"
    /\ UNCHANGED <<assigned, merge_base_commit, branch_a_modified_files,
                   branch_b_modified_files, branch_a_by_file, modified_files, lines_read,
                   compare_status, idx, report, stdout, raised, exit_code, calls, passed, call>>

CallFileChangeFromGit ==
    /\ pc = "unit"
    /\ call.fn = "FileChange.from_git"
    /\ ret' = FileChange_from_git(call.token, call.paths)
    /\ pc' = "returned"
    /\ UNCHANGED <<assigned, merge_base_commit, branch_a_modified_files,
                   branch_b_modified_files, branch_a_by_file, modified_files, lines_read,
                   compare_status, idx, report, stdout, raised, exit_code, calls, passed, call>>

CallFileStatusFromGithub ==
    /\ pc = "unit"
    /\ call.fn = "FileStatus.from_github"
    /\ ret' = FileStatus_from_github(call.raw)
    /\ pc' = "returned"
    /\ UNCHANGED <<assigned, merge_base_commit, branch_a_modified_files,
                   branch_b_modified_files, branch_a_by_file, modified_files, lines_read,
                   compare_status, idx, report, stdout, raised, exit_code, calls, passed, call>>

CallFileChangeFromGithub ==
    /\ pc = "unit"
    /\ call.fn = "FileChange.from_github"
    /\ ret' = FileChange_from_github(call.raw, call.filename, call.previous_filename)
    /\ pc' = "returned"
    /\ UNCHANGED <<assigned, merge_base_commit, branch_a_modified_files,
                   branch_b_modified_files, branch_a_by_file, modified_files, lines_read,
                   compare_status, idx, report, stdout, raised, exit_code, calls, passed, call>>

NextUnit ==
    \/ CallFileStatusFromGit
    \/ CallFileChangeFromGit
    \/ CallFileStatusFromGithub
    \/ CallFileChangeFromGithub

SpecUnit == InitUnit /\ [][NextUnit]_vars

\* ================================================================== claims
\* The paths of the records of a change-set.
PathsOf(files) == {files[k].path : k \in 1..Len(files)}

\* How many records of files have path p.
Occurrences(files, p) == Cardinality({k \in 1..Len(files) : files[k].path = p})

\* How many conflicts were reported for path p.
Reported(p) == Cardinality({n \in 1..Len(report) : report[n].path = p})

\* main has built the path mapping: the conflict loop is running or over.
InConflictLoop == "branch_a_by_file" \in assigned

\* main returned from the end of the conflict loop.
ReportComplete == InConflictLoop /\ pc = "done"

\* The positions of branch_b_modified_files, among those the loop has passed,
\* whose path is the path of some record of branch_a_modified_files.
Hits ==
    {k \in 1..(idx - 1) :
        \E j \in 1..Len(branch_a_modified_files) :
            branch_a_modified_files[j].path = branch_b_modified_files[k].path}

\* The n-th smallest element of a set of positions.
Nth(positions, n) ==
    CHOOSE k \in positions : Cardinality({m \in positions : m <= k}) = n

\* C1: the conflict loop reports exactly the records of the local
\* change-set, in its order, whose path is the path of a record of the remote
\* change-set, each with the record the path mapping holds for that path (a
\* record of the remote change-set with that path, the last such); a path in
\* one change-set only, or an old_path, gives no entry.
C1_ConflictsAreCommonPaths ==
    InConflictLoop =>
        /\ Len(report) = Cardinality(Hits)
        /\ \A n \in 1..Len(report) :
             LET change == branch_b_modified_files[Nth(Hits, n)] IN
             /\ report[n].b = change
             /\ report[n].path = change.path
             /\ report[n].a.path = change.path
             /\ \E j \in 1..Len(branch_a_modified_files) :
                  /\ branch_a_modified_files[j] = report[n].a
                  /\ \A i \in (j + 1)..Len(branch_a_modified_files) :
                       branch_a_modified_files[i].path # change.path
        /\ (PathsOf(branch_a_modified_files) \cap PathsOf(branch_b_modified_files) = {})
             => report = <<>>

\* C1's case: a finished report with an entry, next to a local record that is
\* not reported although its old_path is a path of the remote change-set.
C1_Witness ==
    /\ ReportComplete
    /\ Len(report) >= 1
    /\ \E k \in 1..Len(branch_b_modified_files) :
         /\ branch_b_modified_files[k].old_path \in PathsOf(branch_a_modified_files)
         /\ branch_b_modified_files[k].path \notin PathsOf(branch_a_modified_files)
         /\ Reported(branch_b_modified_files[k].path) = 0

\* C2, as stated: a path of both change-sets is reported exactly once,
\* however many times it occurs in either.
C2_ReportedExactlyOnce ==
    ReportComplete =>
        \A p \in PathsOf(branch_a_modified_files) \cap PathsOf(branch_b_modified_files) :
            Reported(p) = 1

\* C2, amended: a path of both change-sets is reported once for each of its
\* occurrences in the local change-set, however many times it occurs in the
\* remote one; exactly once when it occurs once in the local change-set.
C2_ReportedOncePerLocalOccurrence ==
    ReportComplete =>
        \A p \in PathsOf(branch_a_modified_files) \cap PathsOf(branch_b_modified_files) :
            Reported(p) = Occurrences(branch_b_modified_files, p)

\* C2's case: a path twice in the remote change-set and once in the local one.
C2_Witness ==
    /\ ReportComplete
    /\ \E p \in PathNames :
         /\ Occurrences(branch_a_modified_files, p) = 2
         /\ Occurrences(branch_b_modified_files, p) = 1
         /\ Reported(p) = 1

\* C6: a compare response whose status is not "ahead" ends the remote builder
\* with the assertion's error before any file entry is parsed: from_github is
\* never called, no change-set is returned, nothing is reported.
C6_NotAheadParsesNothing ==
    (compare_status \notin {None, "ahead"}) =>
        /\ pc = "done"
        /\ raised = [in |-> "get_modified_files_remote", exc |-> "AssertionError",
                     why |-> "status"]
        /\ calls.from_github = 0
        /\ modified_files = <<>>
        /\ "branch_a_modified_files" \notin assigned
        /\ report = <<>>

\* C6's case: the compare response said "diverged".
C6_Witness == compare_status = "diverged" /\ pc = "done"

\* A run of main that ended on a failure: it never reached the report.
FailedRun == pc = "done" /\ ~InConflictLoop

\* C8: a run that ends on a failure exits with another status than a run that
\* completes the report with no conflict (which exits 0).
C8_FailureExitDiffers ==
    /\ (ReportComplete /\ report = <<>>) => exit_code = 0
    /\ FailedRun => exit_code # 0

\* main rejected the local branch name: the pipeline was not entered.
BranchRejected == stdout = <<"Local branch names should not contain">>

\* C10: in a run of main that enters the pipeline, get_merge_base runs once
\* and before the builders, which both get the commit it returned; the remote
\* builder, then the local one, run at most once; the report starts only when
\* both change-sets are assigned; an exception out of the resolver or a
\* builder ends the run with no later stage and no conflict reported.
C10_OrderedFailStop ==
    /\ calls.get_merge_base <= 1
    /\ calls.get_modified_files_remote <= 1
    /\ calls.get_modified_files_local <= 1
    /\ (pc \notin {"check_branch", "merge_base"} /\ ~BranchRejected)
         => calls.get_merge_base = 1
    /\ calls.get_modified_files_remote = 1
         => /\ calls.get_merge_base = 1
            /\ "merge_base_commit" \in assigned
            /\ passed.get_modified_files_remote = merge_base_commit
    /\ calls.get_modified_files_local = 1
         => /\ calls.get_modified_files_remote = 1
            /\ "branch_a_modified_files" \in assigned
            /\ passed.get_modified_files_local = merge_base_commit
    /\ (InConflictLoop \/ report # <<>>)
         => /\ {"branch_a_modified_files", "branch_b_modified_files"} \subseteq assigned
            /\ raised = NoException
    /\ raised # NoException
         => /\ pc = "done"
            /\ report = <<>>
            /\ ~InConflictLoop
            /\ raised.in = "get_merge_base"
                 => /\ calls.get_modified_files_remote = 0
                    /\ calls.get_modified_files_local = 0
                    /\ assigned = {}
            /\ raised.in = "get_modified_files_remote"
                 => /\ calls.get_modified_files_local = 0
                    /\ assigned = {"merge_base_commit"}
            /\ raised.in = "get_modified_files_local"
                 => assigned = {"merge_base_commit", "branch_a_modified_files"}

\* C10's case: every stage ran once on the same commit and the last one, the
\* local builder, failed.
C10_Witness ==
    /\ pc = "done"
    /\ raised.in = "get_modified_files_local"
    /\ calls.get_merge_base = 1
    /\ calls.get_modified_files_remote = 1
    /\ calls.get_modified_files_local = 1
    /\ merge_base_commit = "c2"
    /\ passed = [get_modified_files_remote |-> "c2", get_modified_files_local |-> "c2"]
    /\ Len(branch_a_modified_files) >= 1

\* ---------------------------------------------------- the builder's claims
NotBlank(line) == ~IsBlank(line)

\* The record a well-formed line stands for.
RecordOf(line) == Change(ParseLine(line))

\* C7: the local builder skips blank lines and returns one record per
\* non-blank line, in line order, when every such line parses; when one does
\* not (no tab, an empty or unknown status token, a wrong number of paths)
\* it raises the RuntimeError 'Failed to parse `git diff` output' and returns
\* nothing.
C7_AllOrNothing ==
    LET nonblank == SelectSeq(lines_read, NotBlank)
        unparsable == {k \in 1..Len(nonblank) : ParseLine(nonblank[k]).exc # "none"}
    IN
    /\ "branch_b_modified_files" \in assigned
         => /\ unparsable = {}
            /\ branch_b_modified_files = [k \in 1..Len(nonblank) |-> RecordOf(nonblank[k])]
    /\ unparsable # {}
         => /\ pc = "done"
            /\ raised = [in |-> "get_modified_files_local", exc |-> "RuntimeError",
                         why |-> "parse"]
            /\ "branch_b_modified_files" \notin assigned

\* ------------------------------------------------- the constructors' claims
\* The call of SpecUnit has returned or raised.
CallDone(fn) == pc = "returned" /\ call.fn = fn

GitLetters == {"A", "D", "M", "R", "C", "T", "U"}

\* C3: FileStatus.from_git maps a token by its first letter, A to added, D to
\* removed, M to modified, R to renamed, C to copied, T to changed (type
\* change), U to unchanged, whatever follows the letter; for any other first
\* letter, X among them, it raises ValueError and returns no status.
C3_LocalStatusTable ==
    (CallDone("FileStatus.from_git") /\ Len(call.token) >= 1) =>
        LET c == call.token[1] IN
        /\ c = "A" => ret = Returned("added", None, None)
        /\ c = "D" => ret = Returned("removed", None, None)
        /\ c = "M" => ret = Returned("modified", None, None)
        /\ c = "R" => ret = Returned("renamed", None, None)
        /\ c = "C" => ret = Returned("copied", None, None)
        /\ c = "T" => ret = Returned("changed", None, None)
        /\ c = "U" => ret = Returned("unchanged", None, None)
        /\ c \notin GitLetters => (ret.exc = "ValueError" /\ ret.status = None)

\* C3's case: the token R100 gave renamed.
C3_Witness ==
    /\ CallDone("FileStatus.from_git")
    /\ call.token = <<"R", "1", "0", "0">>
    /\ ret.status = "renamed"

\* C4: for a token whose status parses, FileChange.from_git succeeds iff the
\* number of paths is two for renamed or copied (old_path, then path) and one
\* for any other status (path, no old_path); it raises ValueError otherwise.
C4_LocalPathCount ==
    (CallDone("FileChange.from_git") /\ Len(call.token) >= 1
        /\ call.token[1] \in GitLetters) =>
        LET two == call.token[1] \in {"R", "C"}
            n == Len(call.paths)
        IN
        /\ (ret.exc = "none") <=> (n = IF two THEN 2 ELSE 1)
        /\ ret.exc # "none" => ret.exc = "ValueError"
        /\ (ret.exc # "none" /\ two) => ret.why = "expected_two_paths"
        /\ (ret.exc # "none" /\ ~two) => ret.why = "expected_one_path"
        /\ (ret.exc = "none" /\ two)
             => /\ ret.old_path = call.paths[1]
                /\ ret.path = call.paths[2]
                /\ ret.status \in {"renamed", "copied"}
        /\ (ret.exc = "none" /\ ~two)
             => /\ ret.path = call.paths[1]
                /\ ret.old_path = None
                /\ ret.status = GIT_MAPPING[call.token[1]]

\* C4's case: a rename with three paths was refused.
C4_Witness ==
    /\ CallDone("FileChange.from_git")
    /\ call.token = <<"R">>
    /\ Len(call.paths) = 3
    /\ ret.exc = "ValueError"

\* C5: for a status that parses, FileChange.from_github succeeds iff the
\* previous filename is given exactly when the status is renamed or copied;
\* it raises ValueError on either violation, and a record it returns carries
\* the status, the filename as path and the previous filename as old_path.
C5_RemoteRenameInfo ==
    (CallDone("FileChange.from_github") /\ call.raw \in FileStatus) =>
        LET given == call.previous_filename # None
            moved == call.raw \in {"renamed", "copied"}
        IN
        /\ (ret.exc = "none") <=> (given <=> moved)
        /\ ret.exc # "none" => (ret.exc = "ValueError" /\ ret.why = "previous_filename")
        /\ ret.exc = "none" => ret = Returned(call.raw, call.filename, call.previous_filename)

\* C5's case: a previous filename with status modified was refused.
C5_Witness ==
    /\ CallDone("FileChange.from_github")
    /\ call.raw = "modified"
    /\ call.previous_filename = "a"
    /\ ret.exc = "ValueError"

\* A constructor of FileChange returned a record.
Constructed ==
    /\ pc = "returned"
    /\ call.fn \in {"FileChange.from_git", "FileChange.from_github"}
    /\ ret.exc = "none"

\* C9, as stated: a record either constructor returns has an old_path iff its
\* status is renamed or copied, and an old_path other than its path.
C9_RecordInvariant ==
    Constructed =>
        /\ (ret.old_path # None) <=> (ret.status \in {"renamed", "copied"})
        /\ ret.old_path # None => ret.old_path # ret.path

\* C9, amended: a record either constructor returns has an old_path iff its
\* status is renamed or copied (an old_path equal to the path is accepted).
C9_OldPathIffMoved ==
    Constructed =>
        ((ret.old_path # None) <=> (ret.status \in {"renamed", "copied"}))

\* C9's case: from_git returned a copied record with its old_path.
C9_Witness ==
    /\ Constructed
    /\ call.fn = "FileChange.from_git"
    /\ ret.status = "copied"
    /\ ret.old_path = "a"
    /\ ret.path = "b"

====
